---- MODULE Spec2Model ----
(***************************************************************************)
(* Model of dish_grpc_prometheus_exporter.py: the poll loop of main(), the *)
(* Producer StarlinkCollector.loop_body, the shared queue.Queue and the    *)
(* scrape path StarlinkCollector.collect / set_metrics / _add_status.      *)
(*                                                                         *)
(* The main thread runs the poll loop; scrapes run on the HTTP server's    *)
(* request threads and may overlap each other and the poll loop.  SIGTERM  *)
(* and KeyboardInterrupt raise an exception in the main thread wherever it *)
(* is.  The telemetry feed dish_common.get_data is external: each call     *)
(* returns one of a bounded set of outcomes.                               *)
(***************************************************************************)
EXTENDS Integers, Sequences, FiniteSets, TLC

\* ---------------------------------------------------------------- bounds
\* Normal (shutdown=False) loop_body calls explored.
MaxPolls == 2

\* ------------------------------------------------------------ constants
CONNECTION_STATES ==
    << "UNKNOWN", "CONNECTED", "BOOTING", "SEARCHING", "STOWED",
       "THERMAL_SHUTDOWN", "SLEEPING", "NO_SATS", "OBSTRUCTED",
       "NO_DOWNLINK", "NO_PINGS", "DISH_UNREACHABLE" >>

STARLINK_NAME == "starlink"

\* The part of VERBOSE_FIELD_MAP.get(name, name) over the modelled fields.
VERBOSE_FIELD_MAP(name) ==
    IF name = "alerts" THEN "Alerts bit field" ELSE name

\* --------------------------------------------------------------- values
\* A Python value of one of the types the feed delivers.
Num(n)  == [t |-> "num",  n |-> n, s |-> ""]
Str(s)  == [t |-> "str",  n |-> 0, s |-> s]
Bool(b) == [t |-> "bool", n |-> IF b THEN 1 ELSE 0, s |-> ""]
None    == [t |-> "none", n |-> 0, s |-> ""]

EmptyDict == [k \in {} |-> None]

\* Mutant: only None is replaced.
iformNoneOnly(val) ==
    IF val.t = "none" THEN Num(0) ELSE val

\* loop_body.iform
iform(val) ==
    IF val.t = "none" THEN Num(0)
    ELSE IF val.t = "bool" /\ val.n = 1 THEN Num(1)
    ELSE IF val.t = "bool" /\ val.n = 0 THEN Num(0)
    ELSE val

\* loop_body.cb_data_add_item: metrics_data[name] = {...}
cb_data_add_item(metrics_data, name, val, category) ==
    (name :> [value |-> iform(val),
              text |-> VERBOSE_FIELD_MAP(name),
              category |-> category]) @@ metrics_data

\* --------------------------------------------------------- the feed
FeedIds    == {"ut1", "ut2"}
FeedStates == {"CONNECTED", "SEARCHING"}

Opt(name, v) == IF v = "absent" THEN EmptyDict ELSE (name :> Str(v))

\* The other fields of a status reply.
ExtraItems ==
    ("uptime" :> Num(7)) @@ ("hardware_version" :> Str("rev2"))
        @@ ("snr" :> Num(9)) @@ ("alerts" :> Num(0))

\* Item sets one call of get_data can deliver through add_item: an id and a
\* state, each present or not, alone or (for the first dish and for a reply
\* without id) with the other fields.
RichItems ==
    { Opt("id", i) @@ Opt("state", s) :
        i \in FeedIds \cup {"absent"}, s \in FeedStates \cup {"absent"} }
    \cup
    { Opt("id", i) @@ Opt("state", "CONNECTED") @@ ExtraItems :
        i \in {"ut1", "absent"} }

\* The item sets of the runs that explore the interleavings: nothing, or the
\* id and state of one of two dishes.
BasicItems ==
    { EmptyDict,
      Opt("id", "ut1") @@ Opt("state", "CONNECTED"),
      Opt("id", "ut2") @@ Opt("state", "SEARCHING") }

\* What one call of dish_common.get_data can do: deliver an item set through
\* add_item and return rc; the sample timestamp is a second old.
FeedOutputs(itemSets, now) ==
    { [rc |-> r, items |-> it, status_ts |-> now - 1] :
        r \in {0, 1}, it \in itemSets }

\* Values a field of the feed can have: nothing, a truth value, a number, a
\* text.
FieldValues == { None, Bool(TRUE), Num(3), Str("x") }

\* The item sets of the runs that explore the value types: the id and state
\* of one dish with one more field, 'snr' or another, of any type.
TypedItems ==
    { Opt("id", "ut1") @@ Opt("state", "CONNECTED") @@ (name :> v) :
        name \in {"snr", "uptime"}, v \in FieldValues }

\* The outcomes of get_data in those runs: a success with one of the typed
\* item sets, or a failure that delivered one field, a False, before it failed.
TypedOutputs(now) ==
    { [rc |-> 0, items |-> it, status_ts |-> now - 1] : it \in TypedItems }
    \cup { [rc |-> 1, items |-> ("uptime" :> Bool(FALSE)), status_ts |-> now - 1] }

RECURSIVE AddItems(_, _, _)
AddItems(metrics_data, items, names) ==
    IF names = {} THEN metrics_data
    ELSE LET name == CHOOSE x \in names : TRUE
         IN  AddItems(cb_data_add_item(metrics_data, name, items[name], "status"),
                      items, names \ {name})

\* metrics_data after get_data has called cb_data_add_item for every item.
get_data(out) == AddItems(EmptyDict, out.items, DOMAIN out.items)

\* ------------------------------------------------- metric families
\* GaugeMetricFamily(name, documentation, labels=['id']) with no samples.
GaugeMetricFamily(name, documentation) ==
    [kind |-> "gauge", name |-> name, documentation |-> documentation,
     samples |-> << >>]

\* InfoMetricFamily(name, documentation, labels=['id']) with no samples.
InfoMetricFamily(name, documentation) ==
    [kind |-> "info", name |-> name, documentation |-> documentation,
     samples |-> << >>]

\* family.add_metric(labels=[dish_id], value=value, timestamp=timestamp)
add_metric(family, dish_id, value, timestamp) ==
    [family EXCEPT !.samples =
        Append(@, [id |-> dish_id, value |-> value, ts |-> timestamp])]

\* Mutant: the info family is created before the loop over the queue.
NoFamiliesInfoFirst ==
    [k \in {"info"} |-> InfoMetricFamily(STARLINK_NAME, "Starlink Info")]

\* The dict return_metrics starts empty on every scrape.
NoFamilies == [k \in {} |-> GaugeMetricFamily("", "")]

\* "Starlink Status " + docu, with the legend the loop of lines 173-174 builds.
StatusDocu ==
    "Starlink Status 0 = UNKNOWN, 1 = CONNECTED, 2 = BOOTING, 3 = SEARCHING, 4 = STOWED, 5 = THERMAL_SHUTDOWN, 6 = SLEEPING, 7 = NO_SATS, 8 = OBSTRUCTED, 9 = NO_DOWNLINK, 10 = NO_PINGS, 11 = DISH_UNREACHABLE, "

RECURSIVE AddMatchingOneBased(_, _, _, _, _)
\* Mutant: the state code counts from one.
AddMatchingOneBased(family, i, dish_id, starlink_status, time_metrics) ==
    IF i > Len(CONNECTION_STATES) THEN family
    ELSE AddMatchingOneBased(
            IF starlink_status.t = "str" /\ starlink_status.s = CONNECTION_STATES[i]
                THEN add_metric(family, dish_id, i, time_metrics)
                ELSE family,
            i + 1, dish_id, starlink_status, time_metrics)

RECURSIVE AddMatching(_, _, _, _, _)
\* for key, value in starlink_states.items(): if starlink_status == value: add
AddMatching(family, i, dish_id, starlink_status, time_metrics) ==
    IF i > Len(CONNECTION_STATES) THEN family
    ELSE AddMatching(
            IF starlink_status.t = "str" /\ starlink_status.s = CONNECTION_STATES[i]
                THEN add_metric(family, dish_id, i - 1, time_metrics)
                ELSE family,
            i + 1, dish_id, starlink_status, time_metrics)

\* StarlinkCollector._add_status
_add_status(return_metrics, dish_id, starlink_status, time_metrics) ==
    LET rm == IF "state" \in DOMAIN return_metrics THEN return_metrics
              ELSE ("state" :> GaugeMetricFamily(STARLINK_NAME \o "_dish_status", StatusDocu))
                       @@ return_metrics
    IN  [rm EXCEPT !["state"] =
            AddMatching(@, 1, dish_id, starlink_status, time_metrics)]

\* Mutant: the state, a text, goes to the info map as well.
InfoFieldsWithState(metrics_data) ==
    { m \in DOMAIN metrics_data :
        /\ m # "snr"
        /\ metrics_data[m].value.t = "str"
        /\ m # "id" }

\* Fields of a record that the loop of set_metrics sends to the info map.
InfoFields(metrics_data) ==
    { m \in DOMAIN metrics_data :
        /\ m # "snr"
        /\ metrics_data[m].value.t = "str"
        /\ m # "id"
        /\ m # "state" }

\* Mutant: the numeric fields are not filtered by name.
GaugeFieldsWithSnr(metrics_data) ==
    { m \in DOMAIN metrics_data :
        /\ m \notin InfoFields(metrics_data)
        /\ metrics_data[m].value.t = "num" }

\* Fields of a record that the loop of set_metrics turns into gauge samples.
GaugeFields(metrics_data) ==
    { m \in DOMAIN metrics_data :
        /\ m # "snr"
        /\ m \notin InfoFields(metrics_data)
        /\ metrics_data[m].value.t = "num" }

\* Mutant: the gauge family of a field is created anew for every record.
GaugeOfFresh(return_metrics, metric, metrics_data) ==
    GaugeMetricFamily(STARLINK_NAME \o "_" \o metric, metrics_data[metric].text)

\* set_metrics lines 151-154: the gauge family of a field, created when the
\* scrape sees the field for the first time.
GaugeOf(return_metrics, metric, metrics_data) ==
    IF metric \in DOMAIN return_metrics THEN return_metrics[metric]
    ELSE GaugeMetricFamily(STARLINK_NAME \o "_" \o metric, metrics_data[metric].text)

\* The body of the while loop of set_metrics for one dequeued record.
ProcessRecord(return_metrics, metrics) ==
    LET metrics_data == metrics.metrics_data
        time_metrics == metrics.time_metrics
        dish_id      == metrics_data["id"].value
        info_metrics == [m \in InfoFields(metrics_data) |-> metrics_data[m].value.s]
        gf           == GaugeFields(metrics_data)
        rm1 == [k \in DOMAIN return_metrics \cup gf |->
                  IF k \in gf
                  THEN add_metric(GaugeOf(return_metrics, k, metrics_data),
                                  dish_id, metrics_data[k].value.n, time_metrics)
                  ELSE return_metrics[k]]
        rm2 == IF "info" \in DOMAIN rm1 THEN rm1
               ELSE ("info" :> InfoMetricFamily(STARLINK_NAME, "Starlink Info")) @@ rm1
        rm3 == [rm2 EXCEPT !["info"] = add_metric(@, dish_id, info_metrics, time_metrics)]
    IN  IF "state" \in DOMAIN metrics_data
        THEN _add_status(rm3, dish_id, metrics_data["state"].value, time_metrics)
        ELSE rm3

\* ---------------------------------------------------------------- state
\* HTTP request threads that can run collect() at the same time.
Scrapers == {"s1", "s2"}

\* Values of opts.loop_interval.
Intervals == {-1, 0, 1}

VARIABLES
    feed,            \* the item sets the feed draws from in this run
    threads,         \* the request threads that serve scrapes in this run
    loop_interval,   \* opts.loop_interval
    pc,              \* where the main thread is
    shutdown,        \* the shutdown argument of the loop_body call in progress
    pending,         \* live branch: the record built, last_dish_id set, put not done
    rc,              \* main's rc
    last_dish_id,    \* StarlinkCollector.last_dish_id
    metrics_queue,   \* StarlinkCollector.metrics_queue
    clock,           \* int(time.time())
    monotonic,       \* time.monotonic()
    next_loop,       \* main's next_loop
    released,        \* gstate.shutdown() has run
    exit_code,       \* the process's exit status, -1 while it runs
    spc,             \* where each scrape thread is
    return_metrics,  \* set_metrics' local dict of each scrape in progress
    drained,         \* history: the records the thread's current scrape dequeued
    polls,           \* history: loop_body calls made, by kind
    tick,            \* history: the schedule before, and the clock reading
                     \*          after, the latest loop_body call of the loop
    nPushed,         \* history: records put on the queue so far
    delivered,       \* history: uids of the records dequeued, in order
    lastOkId,        \* history: id delivered by the latest poll with rc 0 and an id
    sig,             \* history: termination requests received
    scraped,         \* history: a scrape has returned and nothing was put since
    quiet            \* history: per thread, its scrape began with scraped true,
                     \*          and nothing was put since

vars == << feed, threads, loop_interval, pc, shutdown, pending, rc, last_dish_id, metrics_queue,
           clock, monotonic, next_loop, released, exit_code, spc, return_metrics,
           drained, polls, tick, nPushed, delivered, lastOkId, sig, scraped, quiet >>

timeVars   == << monotonic, next_loop, tick >>
mainVars   == << feed, threads, loop_interval, pc, shutdown, pending, rc, last_dish_id, clock,
                 released, exit_code, polls, lastOkId, sig, timeVars >>
scrapeVars == << spc, return_metrics, drained, delivered >>

\* The outcome of get_data is a success with an id: status OK and an 'id' item.
OkWithId(out) == out.rc = 0 /\ "id" \in DOMAIN out.items

\* The items of a poll that its record is built from: all of them after a
\* success with an id; otherwise those that lines 231-237 do not overwrite.
RawItems(out) ==
    IF OkWithId(out) THEN out.items
    ELSE [n \in DOMAIN out.items \ {"id", "state"} |-> out.items[n]]

\* History carried with a record: the poll that made it.  live: the poll was
\* a success with an id; fid: the id the feed reported in it; prevOk: the id
\* of the latest success with an id before it; raw: the values the feed
\* delivered; feed_ts: the sample timestamp the feed returned; wall: the
\* wall-clock time of the poll.
PollInfo(uid, out, prevOk) ==
    [uid |-> uid, live |-> OkWithId(out),
     fid |-> IF OkWithId(out) THEN out.items["id"] ELSE None,
     prevOk |-> prevOk,
     raw |-> RawItems(out),
     feed_ts |-> out.status_ts,
     wall |-> clock]

NoRecord ==
    [metrics_data |-> EmptyDict, time_metrics |-> 0,
     poll |-> [uid |-> 0, live |-> FALSE, fid |-> None, prevOk |-> None,
               raw |-> EmptyDict, feed_ts |-> 0, wall |-> 0]]

\* StarlinkCollector.__init__ and main() up to the loop, line 270 included.
Started ==
    /\ pc = "loop"
    /\ shutdown = FALSE
    /\ pending = NoRecord
    /\ rc = 0
    /\ last_dish_id = Str("Unknown")
    /\ metrics_queue = << >>
    /\ clock = 1
    /\ monotonic = 0
    /\ next_loop = 0
    /\ tick = [prev |-> 0, done |-> 0]
    /\ released = FALSE
    /\ exit_code = -1
    /\ spc = [t \in Scrapers |-> "idle"]
    /\ return_metrics = [t \in Scrapers |-> NoFamilies]
    /\ drained = [t \in Scrapers |-> << >>]
    /\ polls = [normal |-> 0, shutdown |-> 0, aborted |-> 0]
    /\ nPushed = 0
    /\ delivered = << >>
    /\ lastOkId = Str("Unknown")
    /\ sig = 0
    /\ scraped = FALSE
    /\ quiet = [t \in Scrapers |-> FALSE]

Start == Started /\ loop_interval \in Intervals

\* Runs with overlapping scrapes, over the basic item sets.
Init == Start /\ feed = "basic" /\ threads = Scrapers

\* Runs with one scrape at a time, over the rich item sets.
InitData == Start /\ feed = "rich" /\ threads = {"s1"}

\* Runs of the loop with one scrape at a time, over the typed item sets.
InitTyped == Started /\ loop_interval = 1 /\ feed = "typed" /\ threads = {"s1"}

\* Runs of the loop with an interval of two time units and polls that take
\* less than, all of, or more than twice that, over the basic item sets.
InitTimed == Started /\ loop_interval = 2 /\ feed = "timed" /\ threads = {"s1"}

ItemSets == IF feed = "rich" THEN RichItems ELSE BasicItems

\* What the call of get_data at wall-clock time clock can do.
Outcomes ==
    IF feed = "typed" THEN TypedOutputs(clock) ELSE FeedOutputs(ItemSets, clock)

\* How long one call of loop_body can take.  Where time is not what a run is
\* about, a poll is over within the time unit.
Durations == IF feed = "timed" THEN {1, 2, 5} ELSE {0}

Alive == pc \notin {"exit", "crashed"}

\* queue.Queue
QueueEmpty(q) == q = << >>
QueuePut(q, item) == Append(q, item)

\* Mutant: get() returns the oldest item and leaves it on the queue.
QueuePeek(q) == [item |-> Head(q), rest |-> q]

QueueGet(q) == [item |-> Head(q), rest |-> Tail(q)]

\* ------------------------------------------------------ the Producer
\* Mutant: the status code is not looked at.
IsLiveAnyStatus(ret, metrics_data) ==
    /\ DOMAIN metrics_data # {}
    /\ "id" \in DOMAIN metrics_data

\* loop_body line 226: rc == 0 and metrics_data and 'id' in metrics_data
IsLive(ret, metrics_data) ==
    /\ ret = 0
    /\ DOMAIN metrics_data # {}
    /\ "id" \in DOMAIN metrics_data

\* Mutant: the else branch sets the state and leaves the id as delivered.
FallbackRecordNoId(metrics_data, dish_id, now) ==
    [metrics_data |->
        ("state" :> [value |-> Str("NO_CONNECTION_WITH_DISH"), text |-> "state",
                     category |-> "status"])
        @@ metrics_data,
     time_metrics |-> now]

\* loop_body lines 231-238: the record of the else branch.
FallbackRecord(metrics_data, dish_id, now) ==
    [metrics_data |->
        ("id" :> [value |-> dish_id, text |-> "<built-in function id>",
                  category |-> "status"])
        @@ ("state" :> [value |-> Str("NO_CONNECTION_WITH_DISH"), text |-> "state",
                        category |-> "status"])
        @@ metrics_data,
     time_metrics |-> now]

\* Mutant: the live record is stamped with the wall clock.
LiveRecordWallClock(metrics_data, status_ts) ==
    [metrics_data |-> metrics_data, time_metrics |-> clock]

\* loop_body line 229: the record of the live branch.
LiveRecord(metrics_data, status_ts) ==
    [metrics_data |-> metrics_data, time_metrics |-> status_ts]

\* Mutant: an interval of zero keeps the loop going.
AfterLoopBodyZeroLoops ==
    IF shutdown THEN "gstate_shutdown"
    ELSE IF loop_interval >= 0 THEN "sleep"
    ELSE "finally"

\* Where main() goes when loop_body returns (lines 274-279, 283-284).
AfterLoopBody ==
    IF shutdown THEN "gstate_shutdown"
    ELSE IF loop_interval > 0 THEN "sleep"
    ELSE "finally"

Max(a, b) == IF a >= b THEN a ELSE b

\* Mutant: the next tick is scheduled one interval after the poll ended.
NextLoopFromNow(prev, now) == now + loop_interval

\* main line 276: next_loop = max(next_loop + opts.loop_interval, now)
NextLoop(prev, now) == Max(prev + loop_interval, now)

\* main's rc after a loop_body call returned ret: line 273 assigns it, line
\* 283 drops it.
MainRc(ret) == IF shutdown THEN rc ELSE ret

\* Mutant: a poll that returns a non-OK status ends the loop.
LoopBodyReturnBreakOnFail(ret, now) ==
    /\ rc' = MainRc(ret)
    /\ UNCHANGED polls
    /\ pc' = IF ret # 0 /\ ~shutdown THEN "finally" ELSE AfterLoopBody
    /\ IF AfterLoopBody = "sleep"
       THEN /\ next_loop' = NextLoop(next_loop, now)
            /\ tick' = [tick EXCEPT !.prev = next_loop, !.done = now]
       ELSE UNCHANGED << next_loop, tick >>

\* main lines 273-277 and 283: loop_body returns ret at monotonic time now;
\* inside the loop with a positive interval the next tick is scheduled.
LoopBodyReturn(ret, now) ==
    /\ rc' = MainRc(ret)
    /\ UNCHANGED polls
    /\ pc' = AfterLoopBody
    /\ IF AfterLoopBody = "sleep"
       THEN /\ next_loop' = NextLoop(next_loop, now)
            /\ tick' = [tick EXCEPT !.prev = next_loop, !.done = now]
       ELSE UNCHANGED << next_loop, tick >>

\* main line 273: the loop calls loop_body(opts, gstate).
LoopBodyCall ==
    /\ pc = "loop"
    /\ polls.normal < MaxPolls
    /\ pc' = "get_data"
    /\ shutdown' = FALSE
    /\ clock' = clock + 1
    /\ polls' = [polls EXCEPT !.normal = @ + 1]
    /\ UNCHANGED timeVars
    /\ UNCHANGED << feed, threads, loop_interval, pending, rc, last_dish_id, metrics_queue,
                    released, exit_code, nPushed, lastOkId, sig >>
    /\ UNCHANGED << scrapeVars, scraped, quiet >>

\* main line 283: the finally clause calls loop_body(opts, gstate, shutdown=True).
FinallyCall ==
    /\ pc = "finally"
    /\ pc' = "get_data"
    /\ shutdown' = TRUE
    /\ clock' = clock + 1
    /\ polls' = [polls EXCEPT !.shutdown = @ + 1]
    /\ UNCHANGED timeVars
    /\ UNCHANGED << feed, threads, loop_interval, pending, rc, last_dish_id, metrics_queue,
                    released, exit_code, nPushed, lastOkId, sig >>
    /\ UNCHANGED << scrapeVars, scraped, quiet >>

\* History: the id of the latest poll with rc 0 that delivered an id.
NextOkId(out) == IF OkWithId(out) THEN out.items["id"] ELSE lastOkId

\* loop_body lines 212-228: get_data returns, the live branch is taken and
\* last_dish_id is set; the put is the next step.
GetDataLive ==
    /\ pc = "get_data"
    /\ \E out \in Outcomes, d \in Durations :
        LET metrics_data == get_data(out)
        IN  /\ IsLive(out.rc, metrics_data)
            /\ last_dish_id' = metrics_data["id"].value
            /\ pending' = LiveRecord(metrics_data, out.status_ts)
                            @@ [poll |-> PollInfo(nPushed + 1, out, lastOkId)]
            /\ lastOkId' = NextOkId(out)
            /\ monotonic' = monotonic + d
    /\ pc' = "put"
    /\ UNCHANGED << next_loop, tick >>
    /\ UNCHANGED << feed, threads, loop_interval, shutdown, rc, metrics_queue, clock, released,
                    exit_code, polls, nPushed, sig >>
    /\ UNCHANGED << scrapeVars, scraped, quiet >>

\* loop_body lines 229 and 241, main line 273: the record is put, rc returned.
PutLive ==
    /\ pc = "put"
    /\ metrics_queue' = QueuePut(metrics_queue, pending)
    /\ nPushed' = nPushed + 1
    /\ LoopBodyReturn(0, monotonic)
    /\ pending' = NoRecord
    /\ UNCHANGED << feed, threads, loop_interval, shutdown, last_dish_id, clock, monotonic,
                    released, exit_code, lastOkId, sig >>
    /\ scraped' = FALSE
    /\ quiet' = [t \in Scrapers |-> FALSE]
    /\ UNCHANGED scrapeVars

\* loop_body lines 212-241 through the else branch: get_data returns, the
\* fallback record is built and put, rc returned.
GetDataFallback ==
    /\ pc = "get_data"
    /\ \E out \in Outcomes, d \in Durations :
        LET metrics_data == get_data(out)
        IN  /\ ~IsLive(out.rc, metrics_data)
            /\ metrics_queue' = QueuePut(metrics_queue,
                    FallbackRecord(metrics_data, last_dish_id, clock)
                      @@ [poll |-> PollInfo(nPushed + 1, out, lastOkId)])
            /\ lastOkId' = NextOkId(out)
            /\ monotonic' = monotonic + d
            /\ LoopBodyReturn(out.rc, monotonic + d)
    /\ nPushed' = nPushed + 1
    /\ UNCHANGED << feed, threads, loop_interval, shutdown, pending, last_dish_id, clock,
                    released, exit_code, sig >>
    /\ scraped' = FALSE
    /\ quiet' = [t \in Scrapers |-> FALSE]
    /\ UNCHANGED scrapeVars

\* main lines 277 and 271: time.sleep(next_loop - now) returns when the
\* scheduled time has come and the loop goes round.
Wake ==
    /\ pc = "sleep"
    /\ pc' = "loop"
    /\ monotonic' = next_loop
    /\ UNCHANGED << next_loop, tick >>
    /\ UNCHANGED << feed, threads, loop_interval, shutdown, pending, rc, last_dish_id,
                    metrics_queue, clock, released, exit_code, polls, nPushed,
                    lastOkId, sig >>
    /\ UNCHANGED << scrapeVars, scraped, quiet >>

\* main line 284
GstateShutdown ==
    /\ pc = "gstate_shutdown"
    /\ released' = TRUE
    /\ pc' = "sys_exit"
    /\ UNCHANGED timeVars
    /\ UNCHANGED << feed, threads, loop_interval, shutdown, pending, rc, last_dish_id,
                    metrics_queue, clock, exit_code, polls, nPushed, lastOkId, sig >>
    /\ UNCHANGED << scrapeVars, scraped, quiet >>

\* main line 286
SysExit ==
    /\ pc = "sys_exit"
    /\ exit_code' = rc
    /\ pc' = "exit"
    /\ UNCHANGED timeVars
    /\ UNCHANGED << feed, threads, loop_interval, shutdown, pending, rc, last_dish_id,
                    metrics_queue, clock, released, polls, nPushed, lastOkId, sig >>
    /\ UNCHANGED << scrapeVars, scraped, quiet >>

\* The main thread is inside the try block of main (lines 269-279).
InTry == ~shutdown /\ pc \in {"loop", "get_data", "put", "sleep"}

\* A loop_body call is in progress.
InPoll == pc \in {"get_data", "put"}

\* Mutant: the handler only sets a flag, which a poll in progress ignores.
RaisedDeferred ==
    IF InPoll THEN pc ELSE IF InTry THEN "finally" ELSE "crashed"

\* Where the main thread is once the exception of the handler has
\* propagated: the except clause of line 280 catches it inside the try block
\* and the finally clause is next; anywhere later it leaves main().
Raised == IF InTry THEN "finally" ELSE "crashed"

\* SIGTERM (handle_sigterm raises Terminated) or KeyboardInterrupt reaches the
\* main thread.  Inside the try block the except clause catches it and the
\* finally clause runs; inside the finally clause nothing catches it.
Terminate ==
    /\ Alive
    /\ pc' = Raised
    /\ exit_code' = IF Raised = "crashed" THEN 1 ELSE exit_code
    /\ pending' = NoRecord
    /\ sig' = sig + 1
    /\ polls' = IF InPoll THEN [polls EXCEPT !.aborted = @ + 1] ELSE polls
    /\ UNCHANGED timeVars
    /\ UNCHANGED << feed, threads, loop_interval, shutdown, rc, last_dish_id, metrics_queue,
                    clock, released, nPushed, lastOkId >>
    /\ UNCHANGED << scrapeVars, scraped, quiet >>

\* ------------------------------------------------------- the Collector
\* collect() calls set_metrics(), line 126: return_metrics = {}
ScrapeStart(t) ==
    /\ Alive
    /\ spc[t] = "idle"
    /\ spc' = [spc EXCEPT ![t] = "check"]
    /\ return_metrics' = [return_metrics EXCEPT ![t] = NoFamilies]
    /\ drained' = [drained EXCEPT ![t] = << >>]
    /\ quiet' = [quiet EXCEPT ![t] = scraped]
    /\ UNCHANGED << metrics_queue, nPushed, delivered, scraped >>
    /\ UNCHANGED mainVars

\* set_metrics line 128 finds the queue non-empty: the loop body is entered.
ScrapeCheckMore(t) ==
    /\ Alive
    /\ spc[t] = "check"
    /\ ~QueueEmpty(metrics_queue)
    /\ spc' = [spc EXCEPT ![t] = "get"]
    /\ UNCHANGED << return_metrics, drained, quiet, metrics_queue, nPushed,
                    delivered, scraped >>
    /\ UNCHANGED mainVars

\* set_metrics line 128 finds the queue empty: line 168 returns return_metrics
\* as it stands, collect() yields its families and the thread is free again.
ScrapeReturn(t) ==
    /\ Alive
    /\ spc[t] = "check"
    /\ QueueEmpty(metrics_queue)
    /\ spc' = [spc EXCEPT ![t] = "idle"]
    /\ return_metrics' = [return_metrics EXCEPT ![t] = NoFamilies]
    /\ drained' = [drained EXCEPT ![t] = << >>]
    /\ scraped' = TRUE
    /\ quiet' = [quiet EXCEPT ![t] = FALSE]
    /\ UNCHANGED << metrics_queue, nPushed, delivered >>
    /\ UNCHANGED mainVars

\* set_metrics lines 129-166: metrics_queue.get() returns a record, which is
\* folded into return_metrics.  On an empty queue get() does not return.
ScrapeGet(t) ==
    /\ Alive
    /\ spc[t] = "get"
    /\ ~QueueEmpty(metrics_queue)
    /\ LET got == QueueGet(metrics_queue)
       IN  /\ metrics_queue' = got.rest
           /\ return_metrics' = [return_metrics EXCEPT ![t] = ProcessRecord(@, got.item)]
           /\ drained' = [drained EXCEPT ![t] = Append(@, got.item)]
           /\ delivered' = Append(delivered, got.item.poll.uid)
    /\ spc' = [spc EXCEPT ![t] = "check"]
    /\ UNCHANGED << quiet, nPushed, scraped >>
    /\ UNCHANGED mainVars

Next ==
    \/ LoopBodyCall
    \/ FinallyCall
    \/ GetDataLive
    \/ PutLive
    \/ GetDataFallback
    \/ Wake
    \/ GstateShutdown
    \/ SysExit
    \/ Terminate
    \/ \E t \in threads : ScrapeStart(t)
    \/ \E t \in threads : ScrapeCheckMore(t)
    \/ \E t \in threads : ScrapeReturn(t)
    \/ \E t \in threads : ScrapeGet(t)

Spec == Init /\ [][Next]_vars

SpecData == InitData /\ [][Next]_vars

SpecTyped == InitTyped /\ [][Next]_vars

SpecTimed == InitTimed /\ [][Next]_vars

\* Runs of the loop in which the main thread keeps running: time.sleep
\* returns, and the loop statement goes on to its next call of loop_body.  A
\* call of get_data need not return.
InitLoop == Started /\ loop_interval = 1 /\ feed = "basic" /\ threads = {"s1"}

SpecLoop ==
    InitLoop /\ [][Next]_vars /\ WF_vars(Wake) /\ WF_vars(LoopBodyCall)

\* ---------------------------------------------------------- properties
\* The scrape of thread t is at the test of line 128 with the queue empty:
\* its next step returns return_metrics[t], built from drained[t].
AtReturn(t) == Alive /\ spc[t] = "check" /\ QueueEmpty(metrics_queue)

Range(seq) == { seq[i] : i \in 1..Len(seq) }

Occurrences(seq, x) == Cardinality({ i \in 1..Len(seq) : seq[i] = x })

QueuedUids == [i \in 1..Len(metrics_queue) |-> metrics_queue[i].poll.uid]

DrainedUids(t) == [i \in 1..Len(drained[t]) |-> drained[t][i].poll.uid]

\* C1: every record put on the queue is on the queue or has been dequeued
\* exactly once, never both and never neither; the scrape that dequeued it
\* holds it whole with one info sample for it, no two scrapes in progress hold
\* the same record, and a scrape that is about to return leaves no record
\* that was put before behind.
C1_ExactlyOnce ==
    /\ \A u \in 1..nPushed :
          Occurrences(QueuedUids, u) + Occurrences(delivered, u) = 1
    /\ Len(metrics_queue) + Len(delivered) = nPushed
    /\ \A t \in Scrapers :
          /\ \A u \in Range(DrainedUids(t)) :
                /\ Occurrences(DrainedUids(t), u) = 1
                /\ Occurrences(delivered, u) = 1
                /\ \A t2 \in Scrapers \ {t} : u \notin Range(DrainedUids(t2))
          /\ drained[t] # << >> =>
                /\ "info" \in DOMAIN return_metrics[t]
                /\ Len(return_metrics[t]["info"].samples) = Len(drained[t])
          /\ AtReturn(t) => Len(delivered) = nPushed

\* C1 witness: a record was put while both scrapes were in progress, each
\* holding a record of its own.
C1_Witness ==
    /\ metrics_queue # << >>
    /\ \A t \in Scrapers : spc[t] # "idle" /\ drained[t] # << >>

\* A record the Producer made on its fallback path.
IsFallback(r) == ~r.poll.live

\* C2: every fallback record a scrape drained has a sample with its id and
\* timestamp in the state family that the scrape returns.
C2_FallbackVisible ==
    \A t \in Scrapers :
        AtReturn(t) =>
            \A i \in 1..Len(drained[t]) :
                IsFallback(drained[t][i]) =>
                    /\ "state" \in DOMAIN return_metrics[t]
                    /\ \E j \in 1..Len(return_metrics[t]["state"].samples) :
                          LET smp == return_metrics[t]["state"].samples[j]
                          IN  /\ smp.id = drained[t][i].metrics_data["id"].value
                              /\ smp.ts = drained[t][i].time_metrics

\* The records that exist: queued, held by a scrape, or about to be put.
AllRecords ==
    Range(metrics_queue)
        \cup UNION { Range(drained[t]) : t \in Scrapers }
        \cup (IF pc = "put" THEN {pending} ELSE {})

\* C3: a live record carries the id the feed reported in its poll, a
\* fallback record the id of the latest earlier success with an id (or
\* "Unknown"), and last_dish_id is always the id of the latest success with an
\* id: a failed poll never changes it.
C3_LastKnownId ==
    /\ \A r \in AllRecords :
          /\ r.poll.live => r.metrics_data["id"].value = r.poll.fid
          /\ ~r.poll.live => r.metrics_data["id"].value = r.poll.prevOk
    /\ last_dish_id = lastOkId

\* C3 witness: a fallback record that reuses the id of an earlier success is
\* queued behind a live record.
C3_Witness ==
    \E i, j \in 1..Len(metrics_queue) :
        /\ i < j
        /\ metrics_queue[i].poll.live
        /\ IsFallback(metrics_queue[j])
        /\ metrics_queue[j].metrics_data["id"].value = metrics_queue[i].poll.fid

Invocations == polls.normal + polls.shutdown

\* C4 as stated: with an interval of zero or less, a run that ends without
\* any termination request has made exactly one Producer invocation and
\* pushed exactly one record.
C4_SinglePoll ==
    (loop_interval <= 0 /\ pc = "exit" /\ sig = 0) =>
        (Invocations = 1 /\ nPushed = 1)

\* C4 as amended: with an interval of zero or less the loop body never runs
\* twice; the process exits only after one shutdown=True invocation and the
\* release of the feed; and a run without termination request has made one
\* normal and one shutdown invocation and pushed two records.
C4_OnePollThenFlush ==
    loop_interval <= 0 =>
        /\ polls.normal <= 1
        /\ pc \notin {"sleep"}
        /\ pc = "exit" => (polls.shutdown = 1 /\ released)
        /\ (pc = "exit" /\ sig = 0) =>
              (polls.normal = 1 /\ Invocations = 2 /\ nPushed = 2)

\* C4 witness: a single-shot run has exited without any termination request.
C4_Witness == loop_interval <= 0 /\ pc = "exit" /\ sig = 0

\* C5: a process that has ended after a termination request (here: after
\* exactly one) ended through sys.exit, after exactly one shutdown=True
\* invocation and after gstate.shutdown().
C5_GracefulShutdown ==
    (sig = 1 /\ ~Alive) =>
        (pc = "exit" /\ polls.shutdown = 1 /\ released)

\* Records put on the queue so far, counted on the queue itself.
Puts == Len(metrics_queue) + Len(delivered)

C7_NeverBlocked ==
    \A t \in Scrapers : ~(spc[t] = "get" /\ QueueEmpty(metrics_queue))

\* C8: a scrape that began after another scrape had returned, with no record
\* put from that return on, returns no family at all.
C8_SecondScrapeEmpty ==
    \A t \in Scrapers :
        (AtReturn(t) /\ quiet[t]) => DOMAIN return_metrics[t] = {}

\* C8 witness: a first scrape drained the records, and a second one that
\* began after it, with nothing put in between, is about to return.
C8_Witness ==
    \E t \in Scrapers : AtReturn(t) /\ quiet[t] /\ delivered # << >>

\* The position of a state name in CONNECTION_STATES, counted from zero as
\* enumerate() does.
StateIndex(name) ==
    (CHOOSE i \in 1..Len(CONNECTION_STATES) : CONNECTION_STATES[i] = name) - 1

\* The records are those of successful polls of one device, each of which
\* reported a state of the vocabulary.
SuccessfulPollsOfOneDevice(recs) ==
    /\ recs # << >>
    /\ \A i \in 1..Len(recs) :
          /\ recs[i].poll.live
          /\ recs[i].poll.fid = recs[1].poll.fid
          /\ "state" \in DOMAIN recs[i].metrics_data
          /\ recs[i].metrics_data["state"].value.s \in Range(CONNECTION_STATES)

StateSamples(t) ==
    IF "state" \in DOMAIN return_metrics[t]
    THEN return_metrics[t]["state"].samples
    ELSE << >>

\* C9 as stated: after N successful polls of one device, the scrape returns
\* a state family with exactly one sample for the device, whose value is the
\* index of a reported state.
C9_OneSamplePerDevice ==
    \A t \in Scrapers :
        (AtReturn(t) /\ SuccessfulPollsOfOneDevice(drained[t])) =>
            /\ Len(StateSamples(t)) = 1
            /\ StateSamples(t)[1].id = drained[t][1].poll.fid
            /\ \E i \in 1..Len(drained[t]) :
                  StateSamples(t)[1].value =
                      StateIndex(drained[t][i].metrics_data["state"].value.s)

\* C9 as amended: after N successful polls of one device, the scrape returns
\* a state family with exactly N samples for the device, one per record in
\* poll order, each with the index of the state and the timestamp of its
\* record.
C9_OneSamplePerRecord ==
    \A t \in Scrapers :
        (AtReturn(t) /\ SuccessfulPollsOfOneDevice(drained[t])) =>
            /\ Len(StateSamples(t)) = Len(drained[t])
            /\ \A i \in 1..Len(drained[t]) :
                  /\ StateSamples(t)[i].id = drained[t][i].poll.fid
                  /\ StateSamples(t)[i].value =
                        StateIndex(drained[t][i].metrics_data["state"].value.s)
                  /\ StateSamples(t)[i].ts = drained[t][i].time_metrics

\* C9 witness: a scrape is about to return the records of two successful
\* polls of one device that reported different states.
C9_Witness ==
    \E t \in Scrapers :
        /\ AtReturn(t)
        /\ SuccessfulPollsOfOneDevice(drained[t])
        /\ Len(drained[t]) >= 2
        /\ drained[t][1].metrics_data["state"].value
              # drained[t][2].metrics_data["state"].value

\* C10: every family a scrape returns has at least one sample.
C10_NoEmptyFamily ==
    \A t \in Scrapers :
        AtReturn(t) =>
            \A k \in DOMAIN return_metrics[t] :
                Len(return_metrics[t][k].samples) >= 1

\* The loop_body calls that have returned.
Returned == Invocations - polls.aborted - (IF InPoll THEN 1 ELSE 0)

\* The record has the layout of the live branch for its poll: the fields the
\* feed delivered, each with its value as stored, and the feed's timestamp.
LiveLayout(r) ==
    /\ DOMAIN r.metrics_data = DOMAIN r.poll.raw
    /\ \A n \in DOMAIN r.poll.raw : r.metrics_data[n].value = iform(r.poll.raw[n])
    /\ r.time_metrics = r.poll.feed_ts

\* The record has the layout of the else branch for its poll: the synthesized
\* state, the last-known id and the wall-clock time.
FallbackLayout(r) ==
    /\ {"id", "state"} \subseteq DOMAIN r.metrics_data
    /\ r.metrics_data["state"].value = Str("NO_CONNECTION_WITH_DISH")
    /\ r.metrics_data["id"].value = r.poll.prevOk
    /\ r.time_metrics = r.poll.wall

\* C11: every loop_body call that has returned, normal or shutdown, has put
\* exactly one record; the record of a poll with status OK and an id has the
\* feed's fields and the feed's sample timestamp, the record of any other poll
\* has the state NO_CONNECTION_WITH_DISH, the last-known id and the wall-clock
\* time of the poll.
C11_OneRecordPerPoll ==
    /\ nPushed = Returned
    /\ \A u \in 1..nPushed :
          Cardinality({ r \in AllRecords \ (IF pc = "put" THEN {pending} ELSE {}) :
                          r.poll.uid = u }) <= 1
    /\ \A r \in AllRecords :
          IF r.poll.live THEN LiveLayout(r) /\ ~FallbackLayout(r)
          ELSE FallbackLayout(r)

\* C11 witness: a live record and a fallback record, of two polls that both
\* returned, are on the queue.
C11_Witness ==
    /\ Returned = 2
    /\ Len(metrics_queue) = 2
    /\ metrics_queue[1].poll.live /\ LiveLayout(metrics_queue[1])
    /\ ~metrics_queue[2].poll.live /\ FallbackLayout(metrics_queue[2])
    /\ metrics_queue[2].time_metrics # metrics_queue[2].poll.feed_ts

\* C12: a process that has ended through the shutdown path after a
\* termination request (the request was caught, the finally clause ran to its
\* end and sys.exit was reached) has exit code 0, whatever the polls before
\* the request returned.
C12_ExitZeroAfterSignal ==
    (pc = "exit" /\ sig = 1) => exit_code = 0

\* C13: with a positive interval, whenever main sleeps, the time the next
\* tick is scheduled for is max(previous scheduled time + interval, now): it
\* is never in the past; after a poll that ended before the previous schedule
\* plus the interval it is that time, whenever the poll ended; after a poll
\* that ended later it is now, so the sleep is empty and the schedule after it
\* counts from now; and the next poll starts at the scheduled time, at most
\* one interval after the poll before it ended.
C13_Schedule ==
    /\ pc = "sleep" =>
          /\ loop_interval > 0
          /\ next_loop = Max(tick.prev + loop_interval, tick.done)
          /\ monotonic = tick.done
          /\ next_loop >= monotonic
          /\ tick.done <= tick.prev + loop_interval =>
                next_loop = tick.prev + loop_interval
          /\ tick.done > tick.prev + loop_interval => next_loop = monotonic
          /\ next_loop - monotonic <= loop_interval
    /\ (pc = "loop" /\ ~shutdown) => monotonic = next_loop

\* C13 witness: the first poll took more than two intervals, the second
\* tick came at once and ended early, and main sleeps until one interval after
\* the start of the second tick.
C13_Witness ==
    /\ pc = "sleep"
    /\ polls.normal = 2
    /\ tick.prev = 5
    /\ tick.done = 6
    /\ next_loop = 7

\* The feed delivered an 'snr' item of type ty in the poll of record r.
SnrDelivered(r, ty) ==
    "snr" \in DOMAIN r.poll.raw /\ r.poll.raw["snr"].t = ty

\* C14: whatever the feed delivered for 'snr' (a number, a text, a truth
\* value, nothing), the families of a scrape, in progress or about to be
\* returned, have no family keyed or named after 'snr' and no info sample
\* with an 'snr' entry.
C14_NoSnr ==
    \A t \in Scrapers :
        LET rm == return_metrics[t]
        IN  /\ "snr" \notin DOMAIN rm
            /\ \A k \in DOMAIN rm :
                  /\ rm[k].name # STARLINK_NAME \o "_snr"
                  /\ rm[k].kind = "info" =>
                        \A i \in 1..Len(rm[k].samples) :
                            "snr" \notin DOMAIN rm[k].samples[i].value

\* C14 witness: a scrape about to return has drained a record whose poll
\* delivered a numeric 'snr', one with a text 'snr' and one with a truth
\* value for 'snr'.
C14_Witness ==
    /\ AtReturn("s1")
    /\ \E i, j, k \in 1..Len(drained["s1"]) :
          /\ SnrDelivered(drained["s1"][i], "num")
          /\ SnrDelivered(drained["s1"][j], "str")
          /\ SnrDelivered(drained["s1"][k], "bool")
          /\ "snr" \in DOMAIN drained["s1"][k].metrics_data

\* The value stored for field name of record r, and the value the feed
\* delivered for it.
Stored(r, name) == r.metrics_data[name].value
Delivered(r, name) == r.poll.raw[name]

\* C15: in every record built, whatever the field name, a delivered None is
\* stored as 0, True as 1, False as 0, and a number or a text as it was
\* delivered; no stored value is a truth value or None.
C15_Coerced ==
    \A r \in AllRecords :
        /\ \A name \in DOMAIN r.poll.raw :
              /\ name \in DOMAIN r.metrics_data
              /\ Delivered(r, name) = None => Stored(r, name) = Num(0)
              /\ Delivered(r, name) = Bool(TRUE) => Stored(r, name) = Num(1)
              /\ Delivered(r, name) = Bool(FALSE) => Stored(r, name) = Num(0)
              /\ Delivered(r, name).t \in {"num", "str"} =>
                    Stored(r, name) = Delivered(r, name)
        /\ \A name \in DOMAIN r.metrics_data :
              Stored(r, name).t \in {"num", "str"}

\* C15 witness: the queue holds a record built from a None, one built from a
\* True and one built from a False, under two different field names.
C15_Witness ==
    \E i, j, k \in 1..Len(metrics_queue) :
        /\ "snr" \in DOMAIN metrics_queue[i].poll.raw
        /\ Delivered(metrics_queue[i], "snr") = None
        /\ Stored(metrics_queue[i], "snr") = Num(0)
        /\ "uptime" \in DOMAIN metrics_queue[j].poll.raw
        /\ Delivered(metrics_queue[j], "uptime") = Bool(TRUE)
        /\ Stored(metrics_queue[j], "uptime") = Num(1)
        /\ "uptime" \in DOMAIN metrics_queue[k].poll.raw
        /\ Delivered(metrics_queue[k], "uptime") = Bool(FALSE)
        /\ Stored(metrics_queue[k], "uptime") = Num(0)

\* Record r has a numeric field X that is not 'snr'.
HasNumeric(r, X) ==
    /\ X # "snr"
    /\ X \in DOMAIN r.metrics_data
    /\ r.metrics_data[X].value.t = "num"

\* The numeric fields, other than 'snr', of the records of a sequence.
NumericFields(recs) ==
    UNION { { X \in DOMAIN recs[i].metrics_data : HasNumeric(recs[i], X) } :
              i \in 1..Len(recs) }

\* One gauge sample for field X per record of the sequence that has X.
GaugeSamples(recs, X) ==
    LET sel == SelectSeq(recs, LAMBDA r : HasNumeric(r, X))
    IN  [i \in 1..Len(sel) |->
            [id    |-> sel[i].metrics_data["id"].value,
             value |-> sel[i].metrics_data[X].value.n,
             ts    |-> sel[i].time_metrics]]

\* C16: a scrape about to return has, for every numeric field X other than
\* 'snr' of a record it drained, exactly one family named starlink_X, a gauge
\* documented with the field's description, whose samples are one per drained
\* record that has X, in the order drained, each with that record's value, id
\* and timestamp.
C16_OneGaugePerField ==
    \A t \in Scrapers :
        AtReturn(t) =>
            \A X \in NumericFields(drained[t]) :
                LET rm == return_metrics[t]
                IN  /\ X \in DOMAIN rm
                    /\ rm[X].kind = "gauge"
                    /\ rm[X].name = STARLINK_NAME \o "_" \o X
                    /\ rm[X].documentation = VERBOSE_FIELD_MAP(X)
                    /\ \A k \in DOMAIN rm : rm[k].name = rm[X].name => k = X
                    /\ rm[X].samples = GaugeSamples(drained[t], X)

\* C16 witness: a scrape about to return drained two records that both have
\* 'uptime'; the family of 'uptime' has their two samples.
C16_Witness ==
    /\ AtReturn("s1")
    /\ Len(drained["s1"]) = 2
    /\ HasNumeric(drained["s1"][1], "uptime")
    /\ HasNumeric(drained["s1"][2], "uptime")
    /\ Len(return_metrics["s1"]["uptime"].samples) = 2
    /\ return_metrics["s1"]["uptime"].samples[1].ts
          # return_metrics["s1"]["uptime"].samples[2].ts

\* C17: every record built is wholly live or wholly fallback: the record of
\* a poll with status OK and an id has the layout of the live branch, and the
\* record of any other poll has the synthesized state and the last-known id
\* and no other field, so none of the values the feed delivered in the failing
\* poll.
C17_WhollyLiveOrFallback ==
    \A r \in AllRecords :
        IF r.poll.live THEN LiveLayout(r)
        ELSE FallbackLayout(r) /\ DOMAIN r.metrics_data = {"id", "state"}

\* The k-th normal poll has returned a non-OK status and no termination
\* request has arrived.
FailedPoll(k) ==
    /\ loop_interval > 0
    /\ sig = 0
    /\ ~shutdown
    /\ ~InPoll
    /\ polls.normal = k
    /\ rc # 0

\* C18: with a positive interval, a normal poll that returned a non-OK status
\* is followed by another poll unless a termination request arrives first
\* (for every poll below the bound on polls); and the record of a successful
\* poll that follows a fallback record on the queue is a live record again.
C18_LoopContinues ==
    /\ \A k \in 1..(MaxPolls - 1) :
          FailedPoll(k) ~> (polls.normal > k \/ sig > 0)
    /\ [](\A i \in 1..(Len(metrics_queue) - 1) :
            (~metrics_queue[i].poll.live /\ metrics_queue[i + 1].poll.live) =>
                /\ LiveLayout(metrics_queue[i + 1])
                /\ ~FallbackLayout(metrics_queue[i + 1]))

\* C18 witness: the first poll failed, the loop went on, and the second
\* poll, a success, has put a live record behind the fallback record.
C18_Witness ==
    /\ sig = 0
    /\ polls.normal = 2
    /\ Len(metrics_queue) = 2
    /\ ~metrics_queue[1].poll.live
    /\ metrics_queue[1].time_metrics = metrics_queue[1].poll.wall
    /\ metrics_queue[2].poll.live
    /\ LiveLayout(metrics_queue[2])
    /\ pc = "sleep" /\ rc = 0

\* C19: every record on the queue has an 'id' entry with a value, and a
\* timestamp entry, so line 133 of set_metrics finds the id of every record
\* it dequeues: every scrape in progress has made one info sample for each
\* record it drained.
C19_IdAlwaysPresent ==
    /\ \A r \in Range(metrics_queue) :
          /\ {"metrics_data", "time_metrics"} \subseteq DOMAIN r
          /\ "id" \in DOMAIN r.metrics_data
          /\ "value" \in DOMAIN r.metrics_data["id"]
    /\ \A t \in Scrapers :
          drained[t] # << >> =>
              Len(return_metrics[t]["info"].samples) = Len(drained[t])

\* C19 witness: the feed has never delivered an id; a scrape about to return
\* drained a fallback record and labelled its info sample with the id the
\* record was given, "Unknown".
C19_Witness ==
    /\ AtReturn("s1")
    /\ lastOkId = Str("Unknown")
    /\ Len(drained["s1"]) = 1
    /\ "id" \notin DOMAIN drained["s1"][1].poll.raw
    /\ ~drained["s1"][1].poll.live
    /\ return_metrics["s1"]["info"].samples[1].id = Str("Unknown")

\* The text fields of record r other than 'id', 'state' and 'snr', by name.
TextFields(r) ==
    [m \in { x \in DOMAIN r.metrics_data \ {"id", "state", "snr"} :
               r.metrics_data[x].value.t = "str" }
       |-> r.metrics_data[m].value.s]

\* One info sample per record of the sequence.
InfoSamples(recs) ==
    [i \in 1..Len(recs) |->
        [id    |-> recs[i].metrics_data["id"].value,
         value |-> TextFields(recs[i]),
         ts    |-> recs[i].time_metrics]]

\* C20: the info family of a scrape that is about to return after draining
\* records is the family 'starlink' with one sample per drained record, live
\* or fallback, in the order drained, labelled with the record's id and
\* holding exactly the record's text fields other than 'id', 'state' and
\* 'snr', an empty map if it has none.
C20_OneInfoSamplePerRecord ==
    \A t \in Scrapers :
        (AtReturn(t) /\ drained[t] # << >>) =>
            /\ "info" \in DOMAIN return_metrics[t]
            /\ return_metrics[t]["info"].kind = "info"
            /\ return_metrics[t]["info"].name = STARLINK_NAME
            /\ return_metrics[t]["info"].samples = InfoSamples(drained[t])

\* C20 witness: a scrape about to return drained a live record with a text
\* field, a live record whose only other text is 'snr', and a fallback
\* record; the last two have an info sample with an empty map.
C20_Witness ==
    /\ AtReturn("s1")
    /\ \E i, j, k \in 1..Len(drained["s1"]) :
          LET info == return_metrics["s1"]["info"].samples
          IN  /\ drained["s1"][i].poll.live
              /\ DOMAIN info[i].value = {"uptime"}
              /\ drained["s1"][j].poll.live
              /\ SnrDelivered(drained["s1"][j], "str")
              /\ DOMAIN info[j].value = {}
              /\ ~drained["s1"][k].poll.live
              /\ DOMAIN info[k].value = {}

====
